---------------------------- MODULE Spec2Model ----------------------------
(***************************************************************************)
(* A model of the record codec of the "moist" fluid-intake tracker         *)
(* (src/classes.js): the Fluid registry (Fluid.saved, Fluid.shown and the  *)
(* buffer kept under "moist:fluids"), the Entry codec and the DailyLog     *)
(* aggregate.                                                              *)
(*                                                                         *)
(* Representation.  A JavaScript string is a sequence of 16-bit code       *)
(* units (naturals in 0..65535).  A color string is a sequence of one      *)
(* character strings, so that toLowerCase, the regular expression test,    *)
(* parseInt(.., 16) and toString(16).padStart(3, "0") are computed rather  *)
(* than assumed.  Fluid objects live in `heap` and are referred to by      *)
(* their position; an object's `index` field is mutable, as in the code.   *)
(* Amounts are kept in tenths (amount * 10), hydration in hundredths       *)
(* (hydration * 100): (k / 10) * 10 = k holds exactly in IEEE doubles for  *)
(* every k in 0..65535, so the fixed-point form loses nothing.             *)
(***************************************************************************)
EXTENDS Integers, Sequences, FiniteSets, TLC

VARIABLES
    heap,          \* the live Fluid objects, by reference (position)
    saved,         \* Fluid.saved: references into heap
    shown,         \* Fluid.shown: references into heap
    localStorage,  \* the key/value store: key -> string
    log,           \* the DailyLog being filled, or NoLog
    encoded,       \* history: the first 3-word record Entry.encode returned,
                   \* with the data of the fluid its entry referred to
    firstSave,     \* history: data -> index given when Fluid.save first pushed it
    ret,           \* what the last operation was given and what it returned
    inp,           \* codec specifications: the input drawn
    out            \* codec specifications: the result computed

vars == <<heap, saved, shown, localStorage, log, encoded, firstSave, ret, inp, out>>

-----------------------------------------------------------------------------
(* Bounds of the model *)

MaxFluids == 2      \* Fluid objects the user constructs in one session
MaxArgs == 2        \* length of the array handed to Fluid.save / Fluid.show
MaxEntries == 2     \* entries registered in the DailyLog
MaxCollection == 3  \* fluids concatenated for Fluid.decodeCollection

(* JavaScript values that are not numbers or references *)

Undefined == 0            \* a missing array element; references start at 1
NaN == -999999            \* charCodeAt past the end of the string

-----------------------------------------------------------------------------
(* Numbers and bits *)

Min(a, b) == IF a < b THEN a ELSE b
Max(a, b) == IF a > b THEN a ELSE b

RECURSIVE Pow2(_)
Pow2(n) == IF n = 0 THEN 1 ELSE 2 * Pow2(n - 1)

\* ToInt32 of the operand of a bitwise operator: NaN becomes 0
ToInt32(x) == IF x = NaN THEN 0 ELSE x

\* x >> n and x << n on non-negative operands
ShiftRight(x, n) == ToInt32(x) \div Pow2(n)
ShiftLeft(x, n) == ToInt32(x) * Pow2(n)

\* a & b and a | b, bit by bit, on non-negative operands
RECURSIVE BitAndN(_, _)
BitAndN(a, b) ==
    IF a = 0 \/ b = 0 THEN 0
    ELSE (IF a % 2 = 1 /\ b % 2 = 1 THEN 1 ELSE 0)
         + 2 * BitAndN(a \div 2, b \div 2)

RECURSIVE BitOrN(_, _)
BitOrN(a, b) ==
    IF a = 0 THEN b
    ELSE IF b = 0 THEN a
    ELSE (IF a % 2 = 1 \/ b % 2 = 1 THEN 1 ELSE 0)
         + 2 * BitOrN(a \div 2, b \div 2)

BitAnd(a, b) == BitAndN(ToInt32(a), ToInt32(b))
BitOr(a, b) == BitOrN(ToInt32(a), ToInt32(b))

\* String.fromCharCode(x) for one argument: ToUint16
FromCharCode(x) == ToInt32(x) % 65536

\* s.charCodeAt(i), i counted from 0
CharCodeAt(s, i) == IF i < Len(s) THEN s[i + 1] ELSE NaN

\* s.substring(from, to), both counted from 0 and clamped to the string
Substring(s, from, to) ==
    LET f == Min(Max(from, 0), Len(s))
        t == Min(Max(to, 0), Len(s))
    IN  IF f >= t THEN << >> ELSE SubSeq(s, f + 1, t)

\* Number(x) || 0
OrZero(x) == IF x = NaN THEN 0 ELSE x

\* Boolean(x) of a number (the flags reach the constructors as true/false,
\* written 1/0 here, or as the 0/1 a decoder shifted out of a word)
ToBoolean(x) == x # 0 /\ x # NaN

\* a boolean used as the operand of << (true is 1, false is 0)
ToNumber(b) == IF b THEN 1 ELSE 0

-----------------------------------------------------------------------------
(* Color strings: sequences of one-character strings *)

HexDigits == <<"0", "1", "2", "3", "4", "5", "6", "7",
               "8", "9", "a", "b", "c", "d", "e", "f">>

\* String.prototype.toLowerCase, on the characters colors are written with
ToLowerChar(c) ==
    CASE c = "A" -> "a" [] c = "B" -> "b" [] c = "C" -> "c"
      [] c = "D" -> "d" [] c = "E" -> "e" [] c = "F" -> "f"
      [] c = "R" -> "r" [] OTHER -> c

ToLowerCase(s) == [i \in 1..Len(s) |-> ToLowerChar(s[i])]

IsHexDigit(c) == \E i \in 1..16 : HexDigits[i] = c

HexValue(c) == (CHOOSE i \in 1..16 : HexDigits[i] = c) - 1

\* the test without the {3}: /^#[0-9a-f]+$/
IsHexColorAnyLength(color) ==
    /\ Len(color) >= 2
    /\ color[1] = "#"
    /\ \A i \in 2..Len(color) : IsHexDigit(color[i])

\* /^#[0-9a-f]{3}$/.test(color)
IsHexColor(color) ==
    /\ Len(color) = 4
    /\ color[1] = "#"
    /\ \A i \in 2..4 : IsHexDigit(color[i])

\* parseInt(s, 16) of a string of hex digits
RECURSIVE ParseInt16(_)
ParseInt16(s) ==
    IF s = << >> THEN 0
    ELSE 16 * ParseInt16(SubSeq(s, 1, Len(s) - 1)) + HexValue(s[Len(s)])

\* n.toString(16)
RECURSIVE ToString16(_)
ToString16(n) ==
    IF n < 16 THEN <<HexDigits[n + 1]>>
    ELSE ToString16(n \div 16) \o <<HexDigits[(n % 16) + 1]>>

\* s.padStart(width, c)
RECURSIVE PadStart(_, _, _)
PadStart(s, width, c) ==
    IF Len(s) >= width THEN s ELSE PadStart(<<c>> \o s, width, c)

-----------------------------------------------------------------------------
(* Fluid: constructor and codec *)

NameMax == 31
DefaultColor == <<"#", "9", "9", "9">>

\* the constructor leaving alwaysShown out of the data
FluidNewFlagless(name, color, hydration, alwaysShown) ==
    LET n == Substring(name, 0, NameMax)
        lower == ToLowerCase(color)
        c == IF IsHexColor(lower) THEN lower ELSE DefaultColor
        h == Max(0, Min(100, OrZero(hydration)))
        a == ToBoolean(alwaysShown)
    IN  [ name |-> n,
          color |-> c,
          hydration |-> h,
          alwaysShown |-> a,
          data |-> << FromCharCode(BitOr(ShiftLeft(h, 8), Len(n))),
                      FromCharCode(ParseInt16(Substring(c, 1, 4))) >> \o n,
          index |-> -1 ]

\* new Fluid(name, color, hydration, alwaysShown); hydration is a whole
\* number or NaN, alwaysShown a number (true is 1)
FluidNew(name, color, hydration, alwaysShown) ==
    LET n == Substring(name, 0, NameMax)
        lower == ToLowerCase(color)
        c == IF IsHexColor(lower) THEN lower ELSE DefaultColor
        h == Max(0, Min(100, OrZero(hydration)))
        a == ToBoolean(alwaysShown)
    IN  [ name |-> n,
          color |-> c,
          hydration |-> h,
          alwaysShown |-> a,
          data |-> << FromCharCode(BitOr(BitOr(ShiftLeft(ToNumber(a), 15),
                                               ShiftLeft(h, 8)),
                                         Len(n))),
                      FromCharCode(ParseInt16(Substring(c, 1, 4))) >> \o n,
          index |-> -1 ]

\* Fluid.decode without the padStart: "#" + n.toString(16)
FluidDecodeUnpadded(data) ==
    LET color == <<"#">> \o ToString16(BitAnd(CharCodeAt(data, 1), 4095))
        complicated == CharCodeAt(data, 0)
        alwaysShown == ShiftRight(complicated, 15)
        hydration == Min(100, BitAnd(ShiftRight(complicated, 8), 127))
        nameLength == BitAnd(complicated, 31)
        name == Substring(data, 2, 2 + nameLength)
    IN  FluidNew(name, color, hydration, alwaysShown)

\* Fluid.decode taking the rest of the buffer as the name: data.substring(2)
FluidDecodeGreedy(data) ==
    LET color == <<"#">> \o PadStart(ToString16(BitAnd(CharCodeAt(data, 1), 4095)),
                                     3, "0")
        complicated == CharCodeAt(data, 0)
        alwaysShown == ShiftRight(complicated, 15)
        hydration == Min(100, BitAnd(ShiftRight(complicated, 8), 127))
        name == Substring(data, 2, Len(data))
    IN  FluidNew(name, color, hydration, alwaysShown)

\* Fluid.decode reading the hydration through a 6-bit mask
FluidDecodeNarrow(data) ==
    LET color == <<"#">> \o PadStart(ToString16(BitAnd(CharCodeAt(data, 1), 4095)),
                                     3, "0")
        complicated == CharCodeAt(data, 0)
        alwaysShown == ShiftRight(complicated, 15)
        hydration == Min(100, BitAnd(ShiftRight(complicated, 8), 63))
        nameLength == BitAnd(complicated, 31)
        name == Substring(data, 2, 2 + nameLength)
    IN  FluidNew(name, color, hydration, alwaysShown)

\* Fluid.decode(data)
FluidDecode(data) ==
    LET color == <<"#">> \o PadStart(ToString16(BitAnd(CharCodeAt(data, 1), 4095)),
                                     3, "0")
        complicated == CharCodeAt(data, 0)
        alwaysShown == ShiftRight(complicated, 15)
        hydration == Min(100, BitAnd(ShiftRight(complicated, 8), 127))
        nameLength == BitAnd(complicated, 31)
        name == Substring(data, 2, 2 + nameLength)
    IN  FluidNew(name, color, hydration, alwaysShown)

\* the loop of Fluid.decodeCollection from position pos, index fluids decoded
\* the loop advancing by the header word and the name: pos += 1 + name.length
RECURSIVE DecodeCollectionShort(_, _, _)
DecodeCollectionShort(data, pos, index) ==
    IF pos < Len(data)
    THEN LET item == FluidDecode(Substring(data, pos, Len(data)))
         IN  <<[item EXCEPT !.index = index]>>
             \o DecodeCollectionShort(data, pos + 1 + Len(item.name), index + 1)
    ELSE << >>

RECURSIVE DecodeCollectionFrom(_, _, _)
DecodeCollectionFrom(data, pos, index) ==
    IF pos < Len(data)
    THEN LET item == FluidDecode(Substring(data, pos, Len(data)))
         IN  <<[item EXCEPT !.index = index]>>
             \o DecodeCollectionFrom(data, pos + Len(item.data), index + 1)
    ELSE << >>

\* Fluid.decodeCollection(data) of a string (null is handled by the caller)
FluidDecodeCollection(data) == DecodeCollectionFrom(data, 0, 0)

-----------------------------------------------------------------------------
(* The Fluid registry: Fluid.save and Fluid.show *)

FluidsKey == "moist:fluids"

\* An argument of Fluid.save: an array of Fluid references, or (as
\* Entry.encode passes it) a Fluid object itself, which is not iterable
ArrayOf(items) == [array |-> TRUE, items |-> items, ref |-> Undefined]
ObjectRef(f) == [array |-> FALSE, items |-> << >>, ref |-> f]

\* list.find(item => item.data === data): the first such reference
RECURSIVE FindFrom(_, _, _, _)
FindFrom(h, list, data, i) ==
    IF i > Len(list) THEN Undefined
    ELSE IF h[list[i]].data = data THEN list[i]
    ELSE FindFrom(h, list, data, i + 1)

\* a find that stops one element short of the end of the list
FindShort(h, list, data) ==
    FindFrom(h, SubSeq(list, 1, Len(list) - 1), data, 1)

Find(h, list, data) == FindFrom(h, list, data, 1)

\* the index Fluid.save gives a fluid it is about to push
NewIndex(fluids, sv) == Len(fluids)

\* the loop body of Fluid.save with unshift in place of push
SaveOneFirst(fluids, fluid, twin, h, sv) ==
    IF twin = Undefined
    THEN [heap |-> [h EXCEPT ![fluid].index = NewIndex(fluids, sv)],
          saved |-> <<fluid>> \o sv]
    ELSE [heap |-> [h EXCEPT ![fluid].index = h[twin].index], saved |-> sv]

\* one turn of the for-of loop of Fluid.save: fluid with the twin found
SaveOne(fluids, fluid, twin, h, sv) ==
    IF twin = Undefined
    THEN [heap |-> [h EXCEPT ![fluid].index = NewIndex(fluids, sv)],
          saved |-> Append(sv, fluid)]
    ELSE [heap |-> [h EXCEPT ![fluid].index = h[twin].index], saved |-> sv]

\* the for-of loop of Fluid.save, from the i-th fluid on
RECURSIVE SaveLoop(_, _, _)
SaveLoop(fluids, i, st) ==
    IF i > Len(fluids) THEN st
    ELSE SaveLoop(fluids, i + 1,
                  SaveOne(fluids, fluids[i],
                          Find(st.heap, st.saved, st.heap[fluids[i]].data),
                          st.heap, st.saved))

\* the concatenation Fluid.save writes to the store
RECURSIVE ConcatData(_, _)
ConcatData(h, sv) ==
    IF sv = << >> THEN << >> ELSE h[Head(sv)].data \o ConcatData(h, Tail(sv))

SetItem(store, key, value) ==
    [k \in DOMAIN store \cup {key} |-> IF k = key THEN value ELSE store[k]]

\* the end of Fluid.save: the whole buffer is written back
Stored(after, store) ==
    [threw |-> FALSE, heap |-> after.heap, saved |-> after.saved,
     localStorage |-> SetItem(store, FluidsKey,
                              ConcatData(after.heap, after.saved))]

\* Fluid.save(arg): for-of over something that is not iterable throws a
\* TypeError before anything is changed
FluidSave(arg, h, sv, store) ==
    IF ~arg.array
    THEN [threw |-> TRUE, heap |-> h, saved |-> sv, localStorage |-> store]
    ELSE Stored(SaveLoop(arg.items, 1, [heap |-> h, saved |-> sv]), store)

\* the loop body of Fluid.show without the toSave.push of lines 91-92
ShowOneUnsaved(fluid, twin, st) ==
    IF twin = Undefined
    THEN [st EXCEPT !.shown = Append(@, fluid)]
    ELSE [st EXCEPT !.heap[fluid].index = st.heap[twin].index]

\* one turn of the for-of loop of Fluid.show: fluid with the twin found
ShowOne(fluid, twin, st) ==
    IF twin = Undefined
    THEN [st EXCEPT !.shown = Append(@, fluid),
                    !.toSave = IF st.heap[fluid].alwaysShown
                               THEN Append(@, fluid) ELSE @]
    ELSE [st EXCEPT !.heap[fluid].index = st.heap[twin].index]

\* the for-of loop of Fluid.show, from the i-th fluid on
RECURSIVE ShowLoop(_, _, _)
ShowLoop(fluids, i, st) ==
    IF i > Len(fluids) THEN st
    ELSE ShowLoop(fluids, i + 1,
                  ShowOne(fluids[i],
                          Find(st.heap, st.shown, st.heap[fluids[i]].data), st))

\* the end of Fluid.show: Fluid.save(toSave)
ShowSaved(looped, after) ==
    [heap |-> after.heap, saved |-> after.saved, shown |-> looped.shown,
     localStorage |-> after.localStorage]

ShowSave(looped, sv, store) ==
    ShowSaved(looped, FluidSave(ArrayOf(looped.toSave), looped.heap, sv, store))

\* Fluid.show(fluids)
FluidShow(fluids, h, sv, sh, store) ==
    ShowSave(ShowLoop(fluids, 1, [heap |-> h, shown |-> sh, toSave |-> << >>]),
             sv, store)

\* the arguments of the fluid added at startup: "Water", "#6CF", 100, true
WaterName == <<87, 97, 116, 101, 114>>
WaterColor == <<"#", "6", "C", "F">>

SelectShown(h, list) == SelectSeq(list, LAMBDA f : h[f].alwaysShown)

\* Loading the script: the static initialisers of Fluid, then
\* Fluid.show([new Fluid("Water", "#6CF", 100, true)]).  The Water object
\* is dropped again when show found its twin: nothing refers to it.
\* the static initialisers alone, without the Fluid.show of line 186
StartupWithoutWater(decoded, store) ==
    [heap |-> decoded,
     saved |-> [i \in 1..Len(decoded) |-> i],
     shown |-> SelectShown(decoded, [i \in 1..Len(decoded) |-> i]),
     localStorage |-> store]

\* the static initialisers of Fluid over the decoded collection, then the
\* Fluid.show of the Water object
StartupWith(decoded, store) ==
    LET n == Len(decoded)
        sv == [i \in 1..n |-> i]
        water == FluidNew(WaterName, WaterColor, 100, 1)
        after == FluidShow(<<n + 1>>, Append(decoded, water), sv,
                           SelectShown(decoded, sv), store)
    IN  IF \E i \in 1..Len(after.shown) : after.shown[i] = n + 1
        THEN after
        ELSE [after EXCEPT !.heap = SubSeq(@, 1, n)]

Startup(store) ==
    StartupWith(IF FluidsKey \in DOMAIN store
                THEN FluidDecodeCollection(store[FluidsKey])
                ELSE << >>,
                store)

-----------------------------------------------------------------------------
(* Entry: constructor and codec.  amount is kept in tenths. *)

AmountMax == 65535   \* 6553.5, in tenths
HourMax == 23
MinuteMax == 59

\* the constructor without the upper clamps of lines 305-307
EntryNewUnclamped(fluid, isOZ, amount10, hour, minute, sh) ==
    [ fluid |-> IF fluid # Undefined THEN fluid
                ELSE IF sh # << >> THEN sh[1] ELSE Undefined,
      isOZ |-> ToBoolean(isOZ),
      amount |-> Max(0, OrZero(amount10)),
      hour |-> Max(0, OrZero(hour)),
      minute |-> Max(0, OrZero(minute)) ]

\* new Entry(fluid, isOZ, amount, hour, minute): fluid is a reference, or
\* Undefined for anything that is not a Fluid; amount10 is the amount in
\* tenths (already a whole number of tenths) or NaN
EntryNew(fluid, isOZ, amount10, hour, minute, sh) ==
    [ fluid |-> IF fluid # Undefined THEN fluid
                ELSE IF sh # << >> THEN sh[1] ELSE Undefined,
      isOZ |-> ToBoolean(isOZ),
      amount |-> Max(0, Min(AmountMax, OrZero(amount10))),
      hour |-> Max(0, Min(HourMax, OrZero(hour))),
      minute |-> Max(0, Min(MinuteMax, OrZero(minute))) ]

\* Fluid.saved[i] for a number i (undefined when there is no such element)
SavedAt(sv, i) == IF i # NaN /\ i >= 0 /\ i < Len(sv) THEN sv[i + 1] ELSE Undefined

\* a ?? b
Coalesce(a, b) == IF a # Undefined THEN a ELSE b

\* Entry.decode(data)
EntryDecode(data, sv, sh) ==
    LET complicated == OrZero(CharCodeAt(data, 0))
        isOZ == ShiftRight(complicated, 15)
        hour == BitAnd(ShiftRight(complicated, 6), 31)
        minute == BitAnd(complicated, 63)
        amount10 == CharCodeAt(data, 1)
        fluid == Coalesce(SavedAt(sv, CharCodeAt(data, 2)), SavedAt(sv, 0))
    IN  EntryNew(fluid, isOZ, amount10, hour, minute, sh)

\* the String.fromCharCode(...) of Entry.encode
EntryRecord(e, h) ==
    << FromCharCode(BitOr(BitOr(ShiftLeft(ToNumber(e.isOZ), 15),
                                ShiftLeft(BitAnd(e.hour, 31), 6)),
                          BitAnd(e.minute, 63))),
       FromCharCode(e.amount),
       FromCharCode(h[e.fluid].index) >>

\* entry.encode(): saves the fluid when its index is -1, then builds the
\* record; an exception of Fluid.save leaves encode without a value
EntryEncode(e, h, sv, store) ==
    LET unsaved == h[e.fluid].index = -1
        s == IF unsaved THEN FluidSave(ObjectRef(e.fluid), h, sv, store)
             ELSE [threw |-> FALSE, heap |-> h, saved |-> sv,
                   localStorage |-> store]
    IN  [ threw |-> s.threw,
          value |-> IF s.threw THEN << >> ELSE EntryRecord(e, s.heap),
          heap |-> s.heap, saved |-> s.saved, localStorage |-> s.localStorage ]

-----------------------------------------------------------------------------
(* DailyLog.  A quantity is a real number a + b * F + c / F, F the          *)
(* ounce-to-millilitre factor 29.5735295625, in units of one thousandth     *)
(* (tenths of an amount times hundredths of a hydration).                   *)

Quantity(a, b, c) == [plain |-> a, timesF |-> b, overF |-> c]

Plus(q, r) == Quantity(q.plain + r.plain, q.timesF + r.timesF, q.overF + r.overF)

\* Fluid.convertAmount(amount, fromOZ, toOZ)
ConvertAmount(amount, fromOZ, toOZ) ==
    IF fromOZ = toOZ THEN Quantity(amount, 0, 0)
    ELSE IF fromOZ /\ ~toOZ THEN Quantity(0, amount, 0)
    ELSE Quantity(0, 0, amount)

\* Fluid.convertAmount(entry.amount, entry.isOZ, isOZ) * entry.fluid.hydration
Hydrating(entry, isOZ, h) ==
    LET q == ConvertAmount(entry.amount, entry.isOZ, isOZ)
        f == h[entry.fluid].hydration
    IN  Quantity(q.plain * f, q.timesF * f, q.overF * f)

\* new DailyLog(isOZ, goal), goal10 the goal in tenths or NaN
DailyLogNew(isOZ, goal10) ==
    [ isOZ |-> ToBoolean(isOZ),
      goal |-> Max(0, Min(AmountMax, OrZero(goal10))),
      total |-> Quantity(0, 0, 0),
      entries |-> << >> ]

\* register adding the amount as given, without Fluid.convertAmount
DailyLogRegisterUnconverted(lg, fluid, isOZ, amount10, hours, minutes, h, sh) ==
    LET entry == EntryNew(fluid, isOZ, amount10, hours, minutes, sh)
    IN  [lg EXCEPT !.total = Plus(@, Hydrating(entry, entry.isOZ, h)),
                   !.entries = Append(@, entry)]

\* register with unshift in place of push
DailyLogRegisterPrepend(lg, fluid, isOZ, amount10, hours, minutes, h, sh) ==
    LET entry == EntryNew(fluid, isOZ, amount10, hours, minutes, sh)
    IN  [lg EXCEPT !.total = Plus(@, Hydrating(entry, lg.isOZ, h)),
                   !.entries = <<entry>> \o @]

\* log.register(fluid, isOZ, amount) at the wall-clock time hours:minutes
DailyLogRegister(lg, fluid, isOZ, amount10, hours, minutes, h, sh) ==
    LET entry == EntryNew(fluid, isOZ, amount10, hours, minutes, sh)
    IN  [lg EXCEPT !.total = Plus(@, Hydrating(entry, lg.isOZ, h)),
                   !.entries = Append(@, entry)]

\* the loop of DailyLog.decode from position i
RECURSIVE DecodeEntriesFrom(_, _, _, _, _, _)
DecodeEntriesFrom(data, i, lg, h, sv, sh) ==
    IF i < Len(data)
    THEN LET entry == EntryDecode(Substring(data, i, i + 3), sv, sh)
         IN  DecodeEntriesFrom(data, i + 3,
                 [lg EXCEPT !.total = Plus(@, Hydrating(entry, lg.isOZ, h)),
                            !.entries = Append(@, entry)],
                 h, sv, sh)
    ELSE lg

\* DailyLog.decode(data): no path of it throws or rejects
DailyLogDecode(data, h, sv, sh) ==
    LET isOZ == ShiftRight(CharCodeAt(data, 0), 15)
        lg == DailyLogNew(isOZ, CharCodeAt(data, 1))
    IN  DecodeEntriesFrom(data, 2, lg, h, sv, sh)

\* the loop of DailyLog.encode from the i-th entry, data built so far
RECURSIVE EncodeEntriesFrom(_, _, _, _, _, _)
EncodeEntriesFrom(lg, i, data, h, sv, store) ==
    IF i > Len(lg.entries)
    THEN [threw |-> FALSE, value |-> data,
          heap |-> h, saved |-> sv, localStorage |-> store]
    ELSE LET r == EntryEncode(lg.entries[i], h, sv, store)
         IN  IF r.threw THEN r
             ELSE EncodeEntriesFrom(lg, i + 1, data \o r.value,
                                    r.heap, r.saved, r.localStorage)

\* encode with a header of the unit flag alone
DailyLogEncodeNoGoal(lg, h, sv, store) ==
    EncodeEntriesFrom(lg, 1, <<FromCharCode(ShiftLeft(ToNumber(lg.isOZ), 15))>>,
                      h, sv, store)

\* log.encode()
DailyLogEncode(lg, h, sv, store) ==
    EncodeEntriesFrom(lg, 1,
        <<FromCharCode(ShiftLeft(ToNumber(lg.isOZ), 15)), FromCharCode(lg.goal)>>,
        h, sv, store)

-----------------------------------------------------------------------------
(* Month, and the part of Date it uses *)

\* 1 in a leap year of the calendar of Date, else 0
InLeapYear(y) ==
    IF y % 4 # 0 THEN 0
    ELSE IF y % 100 # 0 THEN 1
    ELSE IF y % 400 # 0 THEN 0
    ELSE 1

\* the days of the month with index mn (0 is January) of the year y
DaysOfMonth(y, mn) ==
    <<31, 28 + InLeapYear(y), 31, 30, 31, 30, 31, 31, 30, 31, 30, 31>>[mn + 1]

\* the year of new Date(year, ...): 0..99 stand for 1900..1999
MakeFullYear(year) == IF 0 <= year /\ year <= 99 THEN 1900 + year ELSE year

\* the day of the month of day d of month mn of year y, d carried into the
\* months before (d < 1) or after
RECURSIVE DateFromDay(_, _, _)
DateFromDay(y, mn, d) ==
    IF d < 1
    THEN LET py == IF mn = 0 THEN y - 1 ELSE y
             pm == IF mn = 0 THEN 11 ELSE mn - 1
         IN  DateFromDay(py, pm, d + DaysOfMonth(py, pm))
    ELSE IF d > DaysOfMonth(y, mn)
    THEN DateFromDay(IF mn = 11 THEN y + 1 ELSE y,
                     IF mn = 11 THEN 0 ELSE mn + 1,
                     d - DaysOfMonth(y, mn))
    ELSE d

\* new Date(year, monthIndex, date).getDate()
DateGetDate(year, monthIndex, date) ==
    DateFromDay(MakeFullYear(year) + (monthIndex \div 12), monthIndex % 12, date)

\* new Month(year, month)
MonthNew(year, month) == [year |-> year, month |-> month]

\* next() wrapping after month 12 instead of after month 11
MonthNextLate(m) ==
    MonthNew(m.year + ToNumber(m.month > 12),
             IF m.month > 12 THEN 1 ELSE m.month + 1)

\* month.next()
MonthNext(m) ==
    MonthNew(m.year + ToNumber(m.month > 11),
             IF m.month > 11 THEN 1 ELSE m.month + 1)

\* month.previous()
MonthPrevious(m) ==
    MonthNew(m.year - ToNumber(m.month < 2),
             IF m.month < 2 THEN 12 ELSE m.month - 1)

\* month.getNumberOfDays()
MonthGetNumberOfDays(m) == DateGetDate(m.year, m.month, 0)

\* String(n) of an integer: its decimal digits, "-" first when negative
Digits == <<"0", "1", "2", "3", "4", "5", "6", "7", "8", "9">>

RECURSIVE ToStringNat(_)
ToStringNat(n) ==
    IF n < 10 THEN <<Digits[n + 1]>>
    ELSE ToStringNat(n \div 10) \o <<Digits[(n % 10) + 1]>>

ToStringNum(n) == IF n < 0 THEN <<"-">> \o ToStringNat(-n) ELSE ToStringNat(n)

\* the text "moist:"
KeyPrefix == <<"m", "o", "i", "s", "t", ":">>

\* the key with String(month) and String(day) left as they are
MonthKeyUnpadded(m, day) ==
    KeyPrefix \o ToStringNum(m.year) \o ToStringNum(m.month) \o ToStringNum(day)

\* month.getStorageKeyForDay(day)
MonthGetStorageKeyForDay(m, day) ==
    KeyPrefix
        \o ToStringNum(m.year)
        \o PadStart(ToStringNum(m.month), 2, "0")
        \o PadStart(ToStringNum(day), 2, "0")

\* the number of the first day of the year y, day 0 being 1 January 1970
DayFromYear(y) ==
    365 * (y - 1970) + ((y - 1969) \div 4) - ((y - 1901) \div 100)
        + ((y - 1601) \div 400)

\* the days of the year y before its month with index mn
RECURSIVE DaysBeforeMonth(_, _)
DaysBeforeMonth(y, mn) ==
    IF mn = 0 THEN 0
    ELSE DaysBeforeMonth(y, mn - 1) + DaysOfMonth(y, mn - 1)

\* new Date(year, monthIndex, date).getDay(): 0 is Sunday, and day 0 was a
\* Thursday
DateGetDay(year, monthIndex, date) ==
    LET y == MakeFullYear(year) + (monthIndex \div 12)
    IN  (DayFromYear(y) + DaysBeforeMonth(y, monthIndex % 12) + date - 1 + 4) % 7

\* localStorage.getItem(key) on the day keys of the store: << >> is null,
\* <<value>> a stored value
GetItem(store, key) == IF key \in DOMAIN store THEN <<store[key]>> ELSE << >>

\* an empty TD
EmptyCell ==
    [day |-> 0, today |-> FALSE, button |-> FALSE, key |-> << >>, data |-> << >>]

\* the TD of day i, with "else if (DATA)" in place of DATA !== null
CalendarCellTruthy(m, now, store, i) ==
    LET KEY == MonthGetStorageKeyForDay(m, i)
        DATA == GetItem(store, KEY)
        SAME_MONTH == now.year = m.year /\ now.month + 1 = m.month
        today == SAME_MONTH /\ now.date = i
        button == today \/ (DATA # << >> /\ DATA # << << >> >>)
    IN  [day |-> i, today |-> today, button |-> button,
         key |-> IF button THEN KEY ELSE << >>,
         data |-> IF button THEN DATA ELSE << >>]

\* the TD of day i in generateCalendarPage: the button is in the cell when
\* the day is today or has data, and then carries the key and the data
CalendarCell(m, now, store, i) ==
    LET KEY == MonthGetStorageKeyForDay(m, i)
        DATA == GetItem(store, KEY)
        SAME_MONTH == now.year = m.year /\ now.month + 1 = m.month
        today == SAME_MONTH /\ now.date = i
        button == today \/ DATA # << >>
    IN  [day |-> i, today |-> today, button |-> button,
         key |-> IF button THEN KEY ELSE << >>,
         data |-> IF button THEN DATA ELSE << >>]

\* the loop over the days of generateCalendarPage from day i on
RECURSIVE CalendarDays(_, _, _, _, _, _, _)
CalendarDays(m, now, store, i, DAYS, body, row) ==
    IF i > DAYS THEN [body |-> body, row |-> row]
    ELSE LET filled == Append(row, CalendarCell(m, now, store, i))
         IN  IF Len(filled) = 7
             THEN CalendarDays(m, now, store, i + 1, DAYS,
                               Append(body, filled), << >>)
             ELSE CalendarDays(m, now, store, i + 1, DAYS, body, filled)

\* month.generateCalendarPage(opener) at the time now over the store: the
\* rows of the TBODY, each the cells of a TR
MonthGenerateCalendarPage(m, now, store) ==
    LET weekdays == DateGetDay(m.year, m.month - 1, 1)
        looped == CalendarDays(m, now, store, 1, MonthGetNumberOfDays(m),
                               << >>, [i \in 1..weekdays |-> EmptyCell])
    IN  IF looped.row # << >> THEN Append(looped.body, looped.row)
        ELSE looped.body

-----------------------------------------------------------------------------
(* prefs, the preferences object *)

\* the prefs object with its two flags
PrefsNew(useOZ, useMeridiem) == [useOZ |-> useOZ, useMeridiem |-> useMeridiem]

\* prefs.decode(data): data is << >> for null, <<text>> for a string
PrefsDecode(prefs, data) ==
    IF data = << >> THEN prefs
    ELSE [ useMeridiem |-> ToBoolean(BitAnd(CharCodeAt(data[1], 0), 2)),
           useOZ |-> ToBoolean(BitAnd(CharCodeAt(data[1], 0), 1)) ]

\* prefs.encode()
PrefsEncode(prefs) ==
    << FromCharCode(BitOr(ShiftLeft(BitAnd(ToNumber(prefs.useMeridiem), 1), 2),
                          BitAnd(ToNumber(prefs.useOZ), 1))) >>

-----------------------------------------------------------------------------
(* The inputs the operations are tried with *)

\* new Fluid(...) arguments: the startup Water again, an always-shown tea
\* and a cola that is not always shown
FluidArgs ==
    { <<WaterName, WaterColor, 100, 1>>,
      <<<<84>>, <<"#", "0", "a", "0">>, 50, 1>>,
      <<<<67>>, <<"#", "4", "2", "1">>, 90, 0>> }

UnitFlags == {0, 1}
EntryFlags == {1}
Amounts == {80}
Goals == {640}
Clock == {<<9, 5>>}

Refs == 1..Len(heap)

\* arrays of at most MaxArgs references to live fluids
Arrays == UNION {[1..n -> Refs] : n \in 1..MaxArgs}

-----------------------------------------------------------------------------
(* The program as a state machine *)

Returned(op, entry, unsaved, threw, value) ==
    [op |-> op, entry |-> entry, unsaved |-> unsaved,
     threw |-> threw, value |-> value]

\* after an operation whose return value nothing looks at
Quiet == Returned("", << >>, FALSE, FALSE, << >>)

\* firstSave, extended by the fluids a call pushed onto Fluid.saved
Pushed(fs, h, before, after) ==
    LET new == {after[i] : i \in (Len(before) + 1)..Len(after)}
        fresh == {h[f].data : f \in new} \ DOMAIN fs
    IN  fs @@ [d \in fresh |-> h[CHOOSE f \in new : h[f].data = d].index]

\* the script has been loaded over an empty store
Loaded ==
    \E s \in {Startup(<< >>)} :
        /\ heap = s.heap
        /\ saved = s.saved
        /\ shown = s.shown
        /\ localStorage = s.localStorage
        /\ log = << >>
        /\ encoded = << >>
        /\ firstSave = Pushed(<< >>, s.heap, << >>, s.saved)
        /\ ret = Quiet

Init ==
    /\ Loaded
    /\ inp = << >>
    /\ out = << >>

\* the page is loaded again: every object is rebuilt from the store
Reload ==
    \E s \in {Startup(localStorage)} :
        /\ heap' = s.heap
        /\ saved' = s.saved
        /\ shown' = s.shown
        /\ localStorage' = s.localStorage
        /\ log' = << >>
        /\ firstSave' = Pushed(firstSave, s.heap, << >>, s.saved)
        /\ ret' = Quiet
        /\ UNCHANGED <<encoded, inp, out>>

\* new Fluid(name, color, hydration, alwaysShown)
NewFluid(a) ==
    /\ Len(heap) < MaxFluids
    /\ heap' = Append(heap, FluidNew(a[1], a[2], a[3], a[4]))
    /\ ret' = Quiet
    /\ UNCHANGED <<saved, shown, localStorage, log, encoded, firstSave, inp, out>>

\* Fluid.save(fluids)
Save(fluids) ==
    \E s \in {FluidSave(ArrayOf(fluids), heap, saved, localStorage)} :
        /\ heap' = s.heap
        /\ saved' = s.saved
        /\ localStorage' = s.localStorage
        /\ firstSave' = Pushed(firstSave, s.heap, saved, s.saved)
        /\ ret' = Quiet
        /\ UNCHANGED <<shown, log, encoded, inp, out>>

\* Fluid.show(fluids); ret.value keeps the length Fluid.saved had before
Show(fluids) ==
    \E s \in {FluidShow(fluids, heap, saved, shown, localStorage)} :
        /\ heap' = s.heap
        /\ saved' = s.saved
        /\ shown' = s.shown
        /\ localStorage' = s.localStorage
        /\ firstSave' = Pushed(firstSave, s.heap, saved, s.saved)
        /\ ret' = Returned("Fluid.show", << >>, FALSE, FALSE, <<Len(saved)>>)
        /\ UNCHANGED <<log, encoded, inp, out>>

\* new Entry(fluid, isOZ, amount, hour, minute).encode()
EncodeEntry(fluid, isOZ, amount10, time) ==
    \E e \in {EntryNew(fluid, isOZ, amount10, time[1], time[2], shown)} :
    \E r \in {EntryEncode(e, heap, saved, localStorage)} :
        /\ heap' = r.heap
        /\ saved' = r.saved
        /\ localStorage' = r.localStorage
        /\ firstSave' = Pushed(firstSave, r.heap, saved, r.saved)
        /\ encoded' = IF ~r.threw /\ encoded = << >>
                       THEN <<[record |-> r.value, data |-> heap[e.fluid].data]>>
                       ELSE encoded
        /\ ret' = Returned("Entry.encode", <<e>>,
                            heap[e.fluid].index = -1, r.threw, r.value)
        /\ UNCHANGED <<shown, log, inp, out>>

\* new DailyLog(isOZ, goal)
NewLog(isOZ, goal10) ==
    /\ log' = <<DailyLogNew(isOZ, goal10)>>
    /\ ret' = Quiet
    /\ UNCHANGED <<heap, saved, shown, localStorage, encoded, firstSave, inp, out>>

\* log.register(fluid, isOZ, amount)
Register(fluid, isOZ, amount10, time) ==
    /\ log # << >>
    /\ Len(log[1].entries) < MaxEntries
    /\ log' = <<DailyLogRegister(log[1], fluid, isOZ, amount10,
                                  time[1], time[2], heap, shown)>>
    /\ ret' = Quiet
    /\ UNCHANGED <<heap, saved, shown, localStorage, encoded, firstSave, inp, out>>

\* log.encode()
EncodeLog ==
    /\ log # << >>
    /\ \E r \in {DailyLogEncode(log[1], heap, saved, localStorage)} :
           /\ heap' = r.heap
           /\ saved' = r.saved
           /\ localStorage' = r.localStorage
           /\ firstSave' = Pushed(firstSave, r.heap, saved, r.saved)
           /\ ret' = Returned("DailyLog.encode", << >>, FALSE,
                               r.threw, r.value)
    /\ UNCHANGED <<shown, log, encoded, inp, out>>

\* The registry and the entry codec
Next ==
    \/ Reload
    \/ \E a \in FluidArgs : NewFluid(a)
    \/ \E fluids \in Arrays : Save(fluids)
    \/ \E fluids \in Arrays : Show(fluids)
    \/ \E f \in Refs, u \in EntryFlags, a \in Amounts, t \in Clock :
           EncodeEntry(f, u, a, t)

Spec == Init /\ [][Next]_vars

\* The daily log over a registry that grows by Fluid.show
NextLog ==
    \/ Reload
    \/ \E a \in FluidArgs : NewFluid(a)
    \/ \E f \in Refs : Show(<<f>>)
    \/ \E u \in UnitFlags, g \in Goals : NewLog(u, g)
    \/ \E f \in Refs \cup {Undefined}, u \in UnitFlags, a \in Amounts, t \in Clock :
           Register(f, u, a, t)
    \/ EncodeLog

SpecLog == Init /\ [][NextLog]_vars

\* The registry with several value-identical Fluid objects alive at once
MaxObjects == 3

\* new Fluid(name, color, hydration, alwaysShown), up to MaxObjects objects
NewObject(a) ==
    /\ Len(heap) < MaxObjects
    /\ heap' = Append(heap, FluidNew(a[1], a[2], a[3], a[4]))
    /\ ret' = Quiet
    /\ UNCHANGED <<saved, shown, localStorage, log, encoded, firstSave, inp, out>>

\* one fluid, or two of them (the same object twice included)
OneOrTwo == {<<f>> : f \in Refs} \cup {<<f, g>> : f, g \in Refs}

NextTwins ==
    \/ Reload
    \/ \E a \in FluidArgs : NewObject(a)
    \/ \E fluids \in OneOrTwo : Save(fluids)
    \/ \E fluids \in OneOrTwo : Show(fluids)

SpecTwins == Init /\ [][NextTwins]_vars

-----------------------------------------------------------------------------
(* The codecs as pure functions of inputs drawn from bounded sets *)

Repeat(c, n) == [i \in 1..n |-> c]

registry == <<heap, saved, shown, localStorage, log, encoded, firstSave>>

\* names: empty, one character, two words that read as a fluid header,
\* exactly 31 characters, and 33 characters (cut to 31 by the constructor)
CodecNames ==
    { << >>, <<65>>, <<58373, 1743>>, Repeat(66, NameMax), Repeat(67, NameMax + 2) }

\* colors: "#6CF", "#000", "#0a5", "#fff", and the invalid "red" and "#66CCFF"
CodecColors ==
    { <<"#", "6", "C", "F">>, <<"#", "0", "0", "0">>, <<"#", "0", "a", "5">>,
      <<"#", "f", "f", "f">>, <<"r", "e", "d">>,
      <<"#", "6", "6", "C", "C", "F", "F">> }

CodecHydrations == {-5, 0, 37, 100, 150, NaN}
CodecFlags == {0, 1}

CodecArgs == CodecNames \X CodecColors \X CodecHydrations \X CodecFlags

\* Fluid.decode(f.data) of one constructed fluid
InitFluidCodec ==
    /\ Loaded
    /\ inp \in {<<FluidNew(a[1], a[2], a[3], a[4])>> : a \in CodecArgs}
    /\ out = << >>

DecodeFluid ==
    /\ ret.op # "Fluid.decode"
    /\ out' = <<FluidDecode(inp[1].data)>>
    /\ ret' = Returned("Fluid.decode", << >>, FALSE, FALSE, << >>)
    /\ UNCHANGED <<registry, inp>>

NextFluidCodec == DecodeFluid

SpecFluidCodec == InitFluidCodec /\ [][NextFluidCodec]_vars

\* Fluid.decodeCollection of the concatenated data of constructed fluids
CollectionArgs ==
    { <<<< >>, <<"#", "0", "0", "0">>, 0, 0>>,
      <<<<65>>, <<"#", "6", "C", "F">>, 100, 1>>,
      <<<<58373, 1743>>, <<"#", "0", "a", "5">>, 37, 0>>,
      <<<<25600, 0, 33031>>, <<"r", "e", "d">>, 150, 1>>,
      <<Repeat(66, NameMax), <<"#", "f", "f", "f">>, 100, 1>>,
      <<Repeat(67, NameMax + 2), <<"#", "0", "a", "5">>, 5, 0>> }

RECURSIVE ConcatAll(_)
ConcatAll(fs) == IF fs = << >> THEN << >> ELSE Head(fs).data \o ConcatAll(Tail(fs))

InitCollection ==
    /\ Loaded
    /\ inp = << >>
    /\ out = << >>

ConstructFluid(a) ==
    /\ Len(inp) < MaxCollection
    /\ inp' = Append(inp, FluidNew(a[1], a[2], a[3], a[4]))
    /\ out' = << >>
    /\ ret' = Quiet
    /\ UNCHANGED registry

DecodeCollection ==
    /\ ret.op # "Fluid.decodeCollection"
    /\ out' = FluidDecodeCollection(ConcatAll(inp))
    /\ ret' = Returned("Fluid.decodeCollection", << >>, FALSE, FALSE, << >>)
    /\ UNCHANGED <<registry, inp>>

NextCollection ==
    \/ \E a \in CollectionArgs : ConstructFluid(a)
    \/ DecodeCollection

SpecCollection == InitCollection /\ [][NextCollection]_vars

\* DailyLog.decode of an arbitrary buffer, over the registry as loaded
MaxBuffer == 9
BufferWords == {1, 32848}

\* buffers that hold at least the 2-word header
Buffers == UNION {[1..n -> BufferWords] : n \in 2..MaxBuffer}

InitLogDecode ==
    /\ Loaded
    /\ inp \in Buffers
    /\ out = << >>

DecodeLog ==
    /\ ret.op # "DailyLog.decode"
    /\ out' = <<DailyLogDecode(inp, heap, saved, shown)>>
    /\ ret' = Returned("DailyLog.decode", << >>, FALSE, FALSE, << >>)
    /\ UNCHANGED <<registry, inp>>

NextLogDecode == DecodeLog

SpecLogDecode == InitLogDecode /\ [][NextLogDecode]_vars

\* new Entry(...) of arbitrary arguments and Entry.decode of an arbitrary
\* record, over the registry as loaded.  Numeric arguments are given in
\* quarters (binary fractions, so that x * 10 is exact), or are NaN (every
\* non-numeric argument: Number(x) is NaN) or an infinity.
Infinity == 100000000

\* Math.round((Number(x) || 0) * 10), x in quarters: the amount in tenths
RoundTenths(q) == (5 * OrZero(q) + 1) \div 2

\* Math.round(Number(x) || 0), x in quarters
RoundWhole(q) == (OrZero(q) + 2) \div 4

\* new Entry(fluid, isOZ, amount, hour, minute), the numbers in quarters
EntryOf(fluid, isOZ, amount, hour, minute, sh) ==
    EntryNew(fluid, isOZ, RoundTenths(amount), RoundWhole(hour),
             RoundWhole(minute), sh)

\* amounts: non-numeric, -5, -0.25, 0, 0.25, 8.25, 6553.5, 6553.75, 7000,
\* and the infinities
EntryAmounts ==
    {NaN, -20, -1, 0, 1, 33, 26214, 26215, 28000, Infinity, -Infinity}

\* hours and minutes: non-numeric, -1, 0, 9.5, 23, 23.5, 24, 59, 59.5, 60,
\* 100 and the infinities
EntryTimes ==
    {NaN, -4, 0, 38, 92, 94, 96, 236, 238, 240, 400, Infinity, -Infinity}

EntryArgs ==
    {Undefined, 1} \X {0, 1} \X EntryAmounts \X EntryTimes \X EntryTimes

\* 3-word records and shorter ones: any bit of the first word, any amount,
\* any fluid index
EntryWords == {0, 1, 1535, 2047, 34303, 65535}

EntryRecords == UNION {[1..n -> EntryWords] : n \in 0..3}

InitEntry ==
    /\ Loaded
    /\ inp \in EntryArgs \cup EntryRecords
    /\ out = << >>

ConstructEntry ==
    /\ ret = Quiet
    /\ Len(inp) = 5
    /\ out' = <<EntryOf(inp[1], inp[2], inp[3], inp[4], inp[5], shown)>>
    /\ ret' = Returned("Entry", << >>, FALSE, FALSE, << >>)
    /\ UNCHANGED <<registry, inp>>

DecodeEntry ==
    /\ ret = Quiet
    /\ Len(inp) <= 3
    /\ out' = <<EntryDecode(inp, saved, shown)>>
    /\ ret' = Returned("Entry.decode", << >>, FALSE, FALSE, << >>)
    /\ UNCHANGED <<registry, inp>>

NextEntry ==
    \/ ConstructEntry
    \/ DecodeEntry

SpecEntry == InitEntry /\ [][NextEntry]_vars

\* Months: navigation and day counts.  inp holds the current Month, out
\* the Month a navigation call was made on or the day count returned.
MaxDrift == 1

\* years around which months are tried: before and at year 0, two-digit
\* years, century years that are and are not leap years, and recent years
Years == {-4, 0, 4, 99, 100, 1900, 2000, 2023, 2024, 2100}

NearYears(year) ==
    \E y \in Years : year >= y - MaxDrift /\ year <= y + MaxDrift

InitMonth ==
    /\ Loaded
    /\ inp \in {<<MonthNew(y, m)>> : y \in Years, m \in 1..12}
    /\ out = << >>

GoNext ==
    /\ NearYears(inp[1].year)
    /\ inp' = <<MonthNext(inp[1])>>
    /\ out' = inp
    /\ ret' = Returned("Month.next", << >>, FALSE, FALSE, << >>)
    /\ UNCHANGED registry

GoPrevious ==
    /\ NearYears(inp[1].year)
    /\ inp' = <<MonthPrevious(inp[1])>>
    /\ out' = inp
    /\ ret' = Returned("Month.previous", << >>, FALSE, FALSE, << >>)
    /\ UNCHANGED registry

GetNumberOfDays ==
    /\ out' = <<MonthGetNumberOfDays(inp[1])>>
    /\ ret' = Returned("Month.getNumberOfDays", << >>, FALSE, FALSE, << >>)
    /\ UNCHANGED <<registry, inp>>

NextMonth ==
    \/ GoNext
    \/ GoPrevious
    \/ GetNumberOfDays

SpecMonth == InitMonth /\ [][NextMonth]_vars

\* Storage keys of days: inp holds a Month and a day, out the key returned
KeyYears == {0, 1, 5, 10, 11, 12, 101, 111, 999, 1000, 2024, 2025, 10000, 20241}
KeyDays == {1, 2, 9, 10, 11, 12, 21, 31}

InitKey ==
    /\ Loaded
    /\ inp \in {<<MonthNew(y, m), d>> : y \in KeyYears, m \in 1..12, d \in KeyDays}
    /\ out = << >>

GetStorageKeyForDay ==
    /\ out' = <<MonthGetStorageKeyForDay(inp[1], inp[2])>>
    /\ ret' = Returned("Month.getStorageKeyForDay", << >>, FALSE, FALSE, << >>)
    /\ UNCHANGED <<registry, inp>>

NextKey == GetStorageKeyForDay

SpecKey == InitKey /\ [][NextKey]_vars

\* Calendar pages: inp holds the Month, the time of the call and the day
\* entries of the store; out the page returned
DateNew(year, monthIndex, date) ==
    [year |-> year, month |-> monthIndex, date |-> date]

\* 29 February 2024, 1 January 2024, 31 December 2023 and 28 February 2100
Nows ==
    { DateNew(2024, 1, 29), DateNew(2024, 0, 1), DateNew(2023, 11, 31),
      DateNew(2100, 1, 28) }

\* an encoded log with no entries, unit mL and goal 64.0
EmptyLog == <<0, 640>>

\* stores: no day at all; 1 February 2024 with a log, 29 February 2024
\* with the empty string and 5 March 2024 with a log; 1 and 31 January of
\* the year 0 and 31 December 2023
DayStores ==
    { << >>,
      [k \in { KeyPrefix \o <<"2", "0", "2", "4", "0", "2", "0", "1">>,
               KeyPrefix \o <<"2", "0", "2", "4", "0", "2", "2", "9">>,
               KeyPrefix \o <<"2", "0", "2", "4", "0", "3", "0", "5">> } |->
          IF k[13] = "2" THEN << >> ELSE EmptyLog],
      [k \in { KeyPrefix \o <<"0", "0", "1", "0", "1">>,
               KeyPrefix \o <<"0", "0", "1", "3", "1">>,
               KeyPrefix \o <<"2", "0", "2", "3", "1", "2", "3", "1">> } |->
          EmptyLog] }

InitCalendar ==
    /\ Loaded
    /\ inp \in {<<MonthNew(y, m), now, store>> :
                   y \in Years, m \in 1..12, now \in Nows, store \in DayStores}
    /\ out = << >>

GenerateCalendarPage ==
    /\ out' = <<MonthGenerateCalendarPage(inp[1], inp[2], inp[3])>>
    /\ ret' = Returned("Month.generateCalendarPage", << >>, FALSE, FALSE, << >>)
    /\ UNCHANGED <<registry, inp>>

NextCalendar == GenerateCalendarPage

SpecCalendar == InitCalendar /\ [][NextCalendar]_vars

\* Preferences: inp holds the prefs object and the data last decoded, out
\* the text encode returned or the prefs a round trip started from
PrefsData ==
    { << >>, << << >> >>, <<<<0>>>>, <<<<1>>>>, <<<<2>>>>, <<<<3>>>>, <<<<4>>>>,
      <<<<5>>>>, <<<<6>>>>, <<<<7>>>>, <<<<65535>>>>, <<<<65532, 3>>>> }

\* the object as the script creates it: useOZ from the browser's language,
\* useMeridiem true
InitPrefs ==
    /\ Loaded
    /\ inp \in {<<PrefsNew(u, TRUE), << >> >> : u \in BOOLEAN}
    /\ out = << >>

\* the user interface sets the two flags
SetPrefs(u, m) ==
    /\ inp' = <<PrefsNew(u, m), inp[2]>>
    /\ ret' = Quiet
    /\ UNCHANGED <<registry, out>>

DecodePrefs(data) ==
    /\ inp' = <<PrefsDecode(inp[1], data), data>>
    /\ ret' = Returned("prefs.decode", << >>, FALSE, FALSE, << >>)
    /\ UNCHANGED <<registry, out>>

EncodePrefs ==
    /\ out' = <<PrefsEncode(inp[1])>>
    /\ ret' = Returned("prefs.encode", << >>, FALSE, FALSE, << >>)
    /\ UNCHANGED <<registry, inp>>

\* prefs.decode(prefs.encode())
RecodePrefs ==
    /\ inp' = <<PrefsDecode(inp[1], <<PrefsEncode(inp[1])>>), <<PrefsEncode(inp[1])>> >>
    /\ out' = <<inp[1]>>
    /\ ret' = Returned("prefs.decode(prefs.encode())", << >>, FALSE, FALSE, << >>)
    /\ UNCHANGED registry

NextPrefs ==
    \/ \E u, m \in BOOLEAN : SetPrefs(u, m)
    \/ \E data \in PrefsData : DecodePrefs(data)
    \/ EncodePrefs
    \/ RecodePrefs

SpecPrefs == InitPrefs /\ [][NextPrefs]_vars

\* Two fluids constructed from arbitrary arguments: inp holds the two
\* argument lists, out the two fluids
PairNames == { << >>, <<65>>, <<65, 66>>, Repeat(67, NameMax + 2) }

\* "#6CF", "#6cf", "#000", and the invalid "red", "#66CCFF" and "#6c"
PairColors ==
    { <<"#", "6", "C", "F">>, <<"#", "6", "c", "f">>, <<"#", "0", "0", "0">>,
      <<"r", "e", "d">>, <<"#", "6", "6", "C", "C", "F", "F">>,
      <<"#", "6", "c">> }

PairHydrations == {-5, 37, 150, NaN}

PairArgs == PairNames \X PairColors \X PairHydrations \X {0, 1}

InitPair ==
    /\ Loaded
    /\ inp \in PairArgs \X PairArgs
    /\ out = << >>

\* a = new Fluid(...); b = new Fluid(...)
ConstructPair ==
    /\ ret = Quiet
    /\ out' = << FluidNew(inp[1][1], inp[1][2], inp[1][3], inp[1][4]),
                 FluidNew(inp[2][1], inp[2][2], inp[2][3], inp[2][4]) >>
    /\ ret' = Returned("Fluid", << >>, FALSE, FALSE, << >>)
    /\ UNCHANGED <<registry, inp>>

NextPair == ConstructPair

SpecPair == InitPair /\ [][NextPair]_vars

\* Fluid.decodeCollection of an arbitrary buffer
MaxWords == 5

\* words: no name, a name of 1 and of 31 characters, the header of Water,
\* and all bits set
CollectionWords == {0, 1, 31, 58373, 65535}

InitAnyCollection ==
    /\ Loaded
    /\ inp \in UNION {[1..n -> CollectionWords] : n \in 0..MaxWords}
    /\ out = << >>

DecodeAnyCollection ==
    /\ ret = Quiet
    /\ out' = FluidDecodeCollection(inp)
    /\ ret' = Returned("Fluid.decodeCollection", << >>, FALSE, FALSE, << >>)
    /\ UNCHANGED <<registry, inp>>

NextAnyCollection == DecodeAnyCollection

SpecAnyCollection == InitAnyCollection /\ [][NextAnyCollection]_vars

-----------------------------------------------------------------------------
(* Claims *)

InSaved(f) == \E i \in 1..Len(saved) : saved[i] = f

\* C1: every fluid in Fluid.saved sits at the position its index names:
\* Fluid.saved[f.index] === f, the index being the length of Fluid.saved
\* before the fluid was appended.  (Spec)
C1_SavedIndexIsPosition ==
    \A i \in 1..Len(saved) : heap[saved[i]].index = i - 1

\* C2: a record Entry.encode returned keeps resolving, through Entry.decode,
\* to a fluid with the data of the fluid it was encoded for, whatever
\* Fluid.save / Fluid.show calls and reloads follow.  (Spec)
C2_RecordStillResolves ==
    \A i \in 1..Len(encoded) :
        heap[EntryDecode(encoded[i].record, saved, shown).fluid].data
            = encoded[i].data

\* C3: Entry.encode of an entry whose fluid has index -1 persists the fluid
\* (it is in Fluid.saved and in the stored buffer) and returns normally a
\* 3-word record whose third word is the fluid's index.  (Spec)
C3_EncodePersistsFirst ==
    (ret.op = "Entry.encode" /\ ret.unsaved) =>
        /\ ~ret.threw
        /\ InSaved(ret.entry[1].fluid)
        /\ localStorage[FluidsKey] = ConcatData(heap, saved)
        /\ Len(ret.value) = 3
        /\ ret.value[3] = heap[ret.entry[1].fluid].index

\* C4: a Fluid.save of fluids whose data is already saved changes neither
\* the length of Fluid.saved nor that of the stored buffer, and gives each
\* the index the first save of that data gave.  (Spec)
C4_SaveIsIdempotent ==
    [][\A fluids \in Arrays :
         ( /\ Save(fluids)
           /\ \A i \in 1..Len(fluids) :
                  Find(heap, saved, heap[fluids[i]].data) # Undefined )
         => /\ Len(saved') = Len(saved)
            /\ Len(localStorage'[FluidsKey]) = Len(localStorage[FluidsKey])
            /\ \A i \in 1..Len(fluids) :
                  heap'[fluids[i]].index = firstSave[heap[fluids[i]].data]]_vars

\* C5: for an entry whose fluid is in the registry, decoding what encode
\* returned, with the registry as encode left it, gives back the entry:
\* same fluid, isOZ, amount, hour and minute.  (Spec)
C5_EntryRoundTrip ==
    (ret.op = "Entry.encode" /\ InSaved(ret.entry[1].fluid)) =>
        /\ ~ret.threw
        /\ EntryDecode(ret.value, saved, shown) = ret.entry[1]

\* C6: for a log built by register calls with fluids of the registry,
\* DailyLog.decode(log.encode()) has the isOZ, goal and total of the log and
\* the same entries in the same order.  (SpecLog)
C6_LogRoundTrip ==
    ( /\ ret.op = "DailyLog.encode"
      /\ \A i \in 1..Len(log[1].entries) : InSaved(log[1].entries[i].fluid) )
    => /\ ~ret.threw
       /\ DailyLogDecode(ret.value, heap, saved, shown) = log[1]

\* C7: DailyLog.decode signals a failure for every buffer whose length is
\* not 2 + 3k, and returns no log with an entry parsed from fewer than 3
\* words.  (SpecLogDecode)
C7_DecodeRejectsBadLength ==
    ret.op = "DailyLog.decode" =>
        /\ (Len(inp) < 2 \/ (Len(inp) - 2) % 3 # 0) => ret.threw
        /\ ~ret.threw => 2 + 3 * Len(out[1].entries) <= Len(inp)

\* C8: Fluid.decode(f.data) of a constructed fluid f has the name, color,
\* hydration and alwaysShown of f, and the same encoded data.
\* (SpecFluidCodec)
C8_FluidRoundTrip ==
    ret.op = "Fluid.decode" =>
        /\ out[1].name = inp[1].name
        /\ out[1].color = inp[1].color
        /\ out[1].hydration = inp[1].hydration
        /\ out[1].alwaysShown = inp[1].alwaysShown
        /\ out[1].data = inp[1].data

C8_Witness ==
    /\ ret.op = "Fluid.decode"
    /\ Len(inp[1].name) = NameMax
    /\ inp[1].color = <<"#", "0", "a", "5">>
    /\ inp[1].hydration = 100
    /\ inp[1].alwaysShown
    /\ out[1] = inp[1]

\* C9: Fluid.decodeCollection of the concatenated data of f1..fn returns n
\* fluids, the i-th with the data of fi and index i-1, each record taking
\* 2 + name.length words.  (SpecCollection)
C9_CollectionDecodes ==
    ret.op = "Fluid.decodeCollection" =>
        /\ Len(out) = Len(inp)
        /\ \A i \in 1..Len(inp) :
              /\ out[i].data = inp[i].data
              /\ out[i].index = i - 1
              /\ Len(out[i].data) = 2 + Len(inp[i].name)

C9_Witness ==
    /\ ret.op = "Fluid.decodeCollection"
    /\ Len(inp) = MaxCollection
    /\ inp[1].name = <<58373, 1743>>
    /\ Len(inp[2].name) = NameMax
    /\ Len(out) = MaxCollection
    /\ out[MaxCollection].index = MaxCollection - 1

\* 3-word records: any unit flag, hour and minute fields, any amount, and
\* a fluid index inside or beyond any registry the model reaches
Records3 ==
    {0, 34303, 65535} \X {0, 65535} \X ((0..(MaxFluids + 1)) \cup {65535})

\* C10: after startup Entry.decode of any 3-word record returns an Entry
\* whose fluid is a Fluid object: the one at the stored index when there is
\* one, otherwise the first saved fluid.  (Spec)
C10_DecodeResolvesFluid ==
    \A r \in Records3 :
        \E e \in {EntryDecode(r, saved, shown)} :
            /\ e.fluid \in Refs
            /\ e.fluid = IF r[3] < Len(saved) THEN saved[r[3] + 1] ELSE saved[1]

C10_Witness ==
    /\ encoded # << >>
    /\ encoded[1].record[3] >= Len(saved)
    /\ EntryDecode(encoded[1].record, saved, shown).fluid = saved[1]
    /\ Len(saved) > 1

\* C11: every Entry, constructed from arbitrary arguments or decoded from
\* an arbitrary record, has amount x 10 an integer in 0..65535, hour in
\* 0..23 and minute in 0..59; amount 7000 gives 6553.5, amount -5 gives 0,
\* and a non-numeric argument counts as 0.  (SpecEntry)
C11_EntryFieldsInRange ==
    ret.op \in {"Entry", "Entry.decode"} =>
        /\ out[1].amount \in 0..AmountMax
        /\ out[1].hour \in 0..HourMax
        /\ out[1].minute \in 0..MinuteMax
        /\ out[1].isOZ \in BOOLEAN
        /\ out[1].fluid \in Refs
        /\ (ret.op = "Entry" /\ inp[3] = 28000) => out[1].amount = AmountMax
        /\ (ret.op = "Entry" /\ inp[3] \in {-20, NaN}) => out[1].amount = 0

C11_Witness ==
    /\ ret.op = "Entry"
    /\ inp[3] = 28000
    /\ inp[4] = NaN
    /\ inp[5] = 240
    /\ out[1].amount = AmountMax
    /\ out[1].hour = 0
    /\ out[1].minute = MinuteMax

\* the sum DailyLog.decode forms over entries: each entry's amount converted
\* into the unit isOZ, times the hydration of its fluid
RECURSIVE TotalOf(_, _, _)
TotalOf(entries, isOZ, h) ==
    IF entries = << >> THEN Quantity(0, 0, 0)
    ELSE Plus(TotalOf(SubSeq(entries, 1, Len(entries) - 1), isOZ, h),
              Hydrating(entries[Len(entries)], isOZ, h))

\* C12: after any sequence of register calls on a log with unit U,
\* log.total is the sum over log.entries of convertAmount(entry.amount,
\* entry.isOZ, U) * entry.fluid.hydration.  (SpecLog)
C12_TotalIsSumOfEntries ==
    log # << >> => log[1].total = TotalOf(log[1].entries, log[1].isOZ, heap)

C12_Witness ==
    /\ log # << >>
    /\ Len(log[1].entries) = 2
    /\ log[1].entries[1].isOZ # log[1].entries[2].isOZ
    /\ heap[log[1].entries[1].fluid].hydration = 50
    /\ heap[log[1].entries[2].fluid].hydration = 100
    /\ log[1].isOZ
    /\ log[1].total = Quantity(80 * 50, 0, 80 * 100)

\* C13: a step that changes a log (a register call: the constructor starts
\* a new, empty log and a reload drops the log) appends exactly one entry
\* at the end of log.entries and leaves the earlier entries, their order,
\* log.goal and log.isOZ as they were; no step removes or reorders
\* entries, and encode leaves the log as it was.  (SpecLog)
C13_RegisterAppendsOne ==
    [][ (log # << >> /\ log' # log /\ log' # << >> /\ log'[1].entries # << >>)
        => /\ Len(log'[1].entries) = Len(log[1].entries) + 1
           /\ SubSeq(log'[1].entries, 1, Len(log[1].entries)) = log[1].entries
           /\ log'[1].goal = log[1].goal
           /\ log'[1].isOZ = log[1].isOZ ]_vars

C13_Witness ==
    /\ log # << >>
    /\ Len(log[1].entries) = 2
    /\ log[1].entries[1].fluid # log[1].entries[2].fluid
    /\ log[1].entries[1].isOZ
    /\ ~log[1].entries[2].isOZ

\* C14: whenever log.encode() returns, the text has 2 + 3 * entries.length
\* words: the unit flag in bit 15 of word 1, goal * 10 in word 2, then for
\* each entry in order its unit flag, hour and minute, its amount * 10 and
\* the index of its fluid.  (SpecLog)
C14_EncodedLength ==
    (ret.op = "DailyLog.encode" /\ ~ret.threw) =>
        /\ Len(ret.value) = 2 + 3 * Len(log[1].entries)
        /\ ret.value[1] = (IF log[1].isOZ THEN 32768 ELSE 0)
        /\ ret.value[2] = log[1].goal
        /\ \A i \in 1..Len(log[1].entries) :
              /\ ret.value[3 * i] \div 32768
                     = (IF log[1].entries[i].isOZ THEN 1 ELSE 0)
              /\ (ret.value[3 * i] \div 64) % 32 = log[1].entries[i].hour
              /\ ret.value[3 * i] % 64 = log[1].entries[i].minute
              /\ ret.value[3 * i + 1] = log[1].entries[i].amount
              /\ ret.value[3 * i + 2] = heap[log[1].entries[i].fluid].index

C14_Witness ==
    /\ ret.op = "DailyLog.encode"
    /\ ~ret.threw
    /\ Len(log[1].entries) = 2
    /\ Len(ret.value) = 8
    /\ log[1].entries[1].isOZ # log[1].entries[2].isOZ

\* C15: after every register call the store holds, under the storage key
\* of the log's day, a value that decodes to the log with the entry just
\* registered.  (SpecLog)
C15_LogIsPersisted ==
    (log # << >> /\ log[1].entries # << >>) =>
        \E k \in DOMAIN localStorage \ {FluidsKey} :
            DailyLogDecode(localStorage[k], heap, saved, shown).entries
                = log[1].entries

\* the records of the buffer stored under "moist:fluids"
StoredData ==
    {FluidDecodeCollection(localStorage[FluidsKey])[j].data :
         j \in 1..Len(FluidDecodeCollection(localStorage[FluidsKey]))}

\* C16: every always-shown fluid in Fluid.shown has a record with its data
\* in Fluid.saved and in the buffer stored under "moist:fluids", and a
\* Fluid.show call adds no fluid to Fluid.saved that is not always-shown.
\* (SpecTwins)
C16_ShownAlwaysIsSaved ==
    /\ \A i \in 1..Len(shown) :
           heap[shown[i]].alwaysShown =>
               /\ Find(heap, saved, heap[shown[i]].data) # Undefined
               /\ heap[shown[i]].data \in StoredData
    /\ ret.op = "Fluid.show" =>
           \A j \in (ret.value[1] + 1)..Len(saved) :
               heap[saved[j]].alwaysShown

C16_Witness ==
    /\ ret.op = "Fluid.show"
    /\ Len(shown) = 3
    /\ Len(saved) = 2
    /\ heap[shown[2]].alwaysShown
    /\ ~heap[shown[3]].alwaysShown
    /\ Find(heap, saved, heap[shown[2]].data) # Undefined
    /\ Find(heap, saved, heap[shown[3]].data) = Undefined

\* C17: neither Fluid.shown nor Fluid.saved holds two fluids with
\* identical encoded data, whatever Fluid.show and Fluid.save calls were
\* made, with one or with several value-identical fluids.  (SpecTwins)
C17_NoDuplicates ==
    /\ \A i, j \in 1..Len(saved) :
           heap[saved[i]].data = heap[saved[j]].data => i = j
    /\ \A i, j \in 1..Len(shown) :
           heap[shown[i]].data = heap[shown[j]].data => i = j

C17_Witness ==
    /\ Len(heap) = 3
    /\ heap[2].data = heap[3].data
    /\ heap[2].index = heap[3].index
    /\ heap[2].index # -1
    /\ InSaved(2)
    /\ ~InSaved(3)
    /\ Len(saved) = 2
    /\ Len(shown) = 2

\* C18: a newly constructed fluid has index -1; a fluid in Fluid.saved
\* never has index -1, and no Fluid.save or Fluid.show call changes the
\* index of a fluid that is in Fluid.saved.  (SpecTwins)
C18_SavedIndexIsStable ==
    /\ [](\A i \in 1..Len(saved) : heap[saved[i]].index # -1)
    /\ [][ /\ (\E a \in FluidArgs : NewObject(a))
               => heap'[Len(heap')].index = -1
           /\ (\E fluids \in OneOrTwo : Save(fluids) \/ Show(fluids))
               => \A i \in 1..Len(saved) :
                      heap'[saved[i]].index = heap[saved[i]].index ]_vars

\* C19: for a Month with month in 1..12, next() is (year, month + 1), or
\* (year + 1, 1) after December, and previous() is (year, month - 1), or
\* (year - 1, 12) before January; so month stays in 1..12 and
\* m.next().previous() = m.previous().next() = m.  (SpecMonth)
C19_MonthNavigation ==
    /\ inp[1].month \in 1..12
    /\ ret.op = "Month.next" =>
           inp[1] = IF out[1].month < 12
                    THEN [year |-> out[1].year, month |-> out[1].month + 1]
                    ELSE [year |-> out[1].year + 1, month |-> 1]
    /\ ret.op = "Month.previous" =>
           inp[1] = IF out[1].month > 1
                    THEN [year |-> out[1].year, month |-> out[1].month - 1]
                    ELSE [year |-> out[1].year - 1, month |-> 12]
    /\ MonthPrevious(MonthNext(inp[1])) = inp[1]
    /\ MonthNext(MonthPrevious(inp[1])) = inp[1]

C19_Witness ==
    /\ ret.op = "Month.next"
    /\ out[1] = [year |-> 2023, month |-> 12]
    /\ inp[1] = [year |-> 2024, month |-> 1]

\* the Gregorian day count of month m (1..12) of year y
GregorianDays(y, m) ==
    IF m = 2
    THEN IF y % 4 = 0 /\ (y % 100 # 0 \/ y % 400 = 0) THEN 29 ELSE 28
    ELSE IF m \in {4, 6, 9, 11} THEN 30 ELSE 31

\* C20: for every year and every month in 1..12, getNumberOfDays() is the
\* Gregorian day count of that month, February having 29 days exactly in
\* the years divisible by 4 and not by 100, or divisible by 400.
\* (SpecMonth)
C20_DaysAreGregorian ==
    ret.op = "Month.getNumberOfDays" =>
        out[1] = GregorianDays(inp[1].year, inp[1].month)

\* C21: for every year, month in 1..12 and day in 1..31 the day key has
\* one fixed width: the prefix, then the year zero-padded to four digits,
\* the month and the day zero-padded to two (YYYYMMDD).  (SpecKey)
C21_KeyIsFixedWidth ==
    ret.op = "Month.getStorageKeyForDay" =>
        /\ Len(out[1]) = Len(KeyPrefix) + 8
        /\ out[1] = KeyPrefix
                      \o PadStart(ToStringNum(inp[1].year), 4, "0")
                      \o PadStart(ToStringNum(inp[1].month), 2, "0")
                      \o PadStart(ToStringNum(inp[2]), 2, "0")

\* C30: two different (year >= 0, month in 1..12, day in 1..31) never give
\* the same day key, and no day key is "moist:fluids" or "moist:prefs".
\* (SpecKey)
C30_KeyIsInjective ==
    ret.op = "Month.getStorageKeyForDay" =>
        /\ \A y \in KeyYears, m \in 1..12, d \in KeyDays :
               MonthGetStorageKeyForDay(MonthNew(y, m), d) = out[1]
                   => <<MonthNew(y, m), d>> = inp
        /\ out[1] # KeyPrefix \o <<"f", "l", "u", "i", "d", "s">>
        /\ out[1] # KeyPrefix \o <<"p", "r", "e", "f", "s">>

C30_Witness ==
    /\ ret.op = "Month.getStorageKeyForDay"
    /\ inp = <<MonthNew(1, 11), 1>>
    /\ out[1] = KeyPrefix \o <<"1", "1", "1", "0", "1">>

\* the cells of a page, row after row
RECURSIVE Cells(_)
Cells(rows) == IF rows = << >> THEN << >> ELSE Head(rows) \o Cells(Tail(rows))

\* the weekday (0 is Sunday) of day 1 of month m of year y in the
\* Gregorian calendar, by Zeller's congruence
GregorianWeekday(y, m) ==
    LET yy == IF m < 3 THEN y - 1 ELSE y
        mm == IF m < 3 THEN m + 12 ELSE m
        K == yy % 100
        J == yy \div 100
        h == (1 + ((13 * (mm + 1)) \div 5) + K + (K \div 4) + (J \div 4) + 5 * J) % 7
    IN  (h + 6) % 7

\* C22: the page has w empty leading cells, w the weekday (0 is Sunday) of
\* day 1 of the month, then one cell per day 1..N in order, N the number
\* of days; every row but the last has 7 cells, the last has 1..7, and
\* there is no empty row.  (SpecCalendar)
C22_GridShape ==
    ret.op = "Month.generateCalendarPage" =>
        LET cells == Cells(out[1])
            w == GregorianWeekday(inp[1].year, inp[1].month)
            N == MonthGetNumberOfDays(inp[1])
        IN  /\ Len(cells) = w + N
            /\ \A i \in 1..Len(cells) :
                   cells[i].day = (IF i <= w THEN 0 ELSE i - w)
            /\ \A r \in 1..Len(out[1]) :
                   /\ Len(out[1][r]) \in 1..7
                   /\ r < Len(out[1]) => Len(out[1][r]) = 7

\* C23: the cell of day d is marked today exactly when the month is the
\* current month and d the current day of the month, and it carries a
\* button, with the day's key and stored value, exactly when the store has
\* a value under getStorageKeyForDay(d) or d is today.  (SpecCalendar)
C23_CellMarks ==
    ret.op = "Month.generateCalendarPage" =>
        \A i \in 1..Len(Cells(out[1])) :
            \E c \in {Cells(out[1])[i]} :
                c.day > 0 =>
                    /\ c.today = ( /\ inp[2].year = inp[1].year
                                   /\ inp[2].month + 1 = inp[1].month
                                   /\ inp[2].date = c.day )
                    /\ c.button =
                           ( \/ MonthGetStorageKeyForDay(inp[1], c.day)
                                    \in DOMAIN inp[3]
                             \/ c.today )
                    /\ c.button =>
                           /\ c.key = MonthGetStorageKeyForDay(inp[1], c.day)
                           /\ c.data = IF c.key \in DOMAIN inp[3]
                                       THEN <<inp[3][c.key]>> ELSE << >>

C23_Witness ==
    /\ ret.op = "Month.generateCalendarPage"
    /\ inp[1] = MonthNew(2024, 2)
    /\ inp[2] = DateNew(2024, 1, 29)
    /\ \E i \in 1..Len(Cells(out[1])) :
           /\ Cells(out[1])[i].day = 29
           /\ Cells(out[1])[i].today
           /\ Cells(out[1])[i].data = << << >> >>
    /\ \E i \in 1..Len(Cells(out[1])) :
           /\ Cells(out[1])[i].day = 1
           /\ ~Cells(out[1])[i].today
           /\ Cells(out[1])[i].button
           /\ Cells(out[1])[i].data = <<EmptyLog>>
    /\ \E i \in 1..Len(Cells(out[1])) :
           /\ Cells(out[1])[i].day = 5
           /\ ~Cells(out[1])[i].button

\* C24: prefs.decode(prefs.encode()) restores useOZ and useMeridiem for
\* every combination of the two, useOZ being bit 0 and useMeridiem bit 1
\* of the one word encode returns.  (SpecPrefs)
C24_PrefsRoundTrip ==
    /\ ret.op = "prefs.decode(prefs.encode())" => inp[1] = out[1]
    /\ ret.op = "prefs.encode" =>
           /\ Len(out[1]) = 1
           /\ out[1][1] % 2 = ToNumber(inp[1].useOZ)
           /\ (out[1][1] \div 2) % 2 = ToNumber(inp[1].useMeridiem)

\* "#" and exactly three hex digits, of either case
ThreeHexDigits(color) ==
    /\ Len(color) = 4
    /\ color[1] = "#"
    /\ \A i \in 2..4 :
           color[i] \in {"0", "1", "2", "3", "4", "5", "6", "7", "8", "9",
                         "a", "b", "c", "d", "e", "f",
                         "A", "B", "C", "D", "E", "F"}

\* C25: a Fluid constructed with a color that is not "#" and exactly three
\* hex digits has color "#999"; the second word of its record is a 12-bit
\* value, the hydration field is in 0..100, the name-length field is
\* name.length <= 31 and bits 5-7 of the first word are zero.  (SpecPair)
C25_RecordFieldsInRange ==
    ret.op = "Fluid" =>
        \A k \in 1..2 :
            /\ ~ThreeHexDigits(inp[k][2]) => out[k].color = DefaultColor
            /\ Len(out[k].color) = 4
            /\ out[k].data[2] \in 0..4095
            /\ (out[k].data[1] \div 256) % 128 \in 0..100
            /\ (out[k].data[1] \div 256) % 128 = out[k].hydration
            /\ Len(out[k].name) <= NameMax
            /\ out[k].data[1] % 32 = Len(out[k].name)
            /\ (out[k].data[1] \div 32) % 8 = 0
            /\ Len(out[k].data) = 2 + Len(out[k].name)

C25_Witness ==
    /\ ret.op = "Fluid"
    /\ inp[1][2] = <<"#", "6", "6", "C", "C", "F", "F">>
    /\ out[1].color = DefaultColor
    /\ out[1].data[2] = 2457
    /\ Len(inp[1][1]) = NameMax + 2
    /\ Len(out[1].name) = NameMax
    /\ inp[1][3] = 150
    /\ out[1].hydration = 100

\* C29: two Fluid objects have identical encoded data, so that the twin
\* lookup of Fluid.save takes one for the other, if and only if they have
\* the same name, color, hydration percent and alwaysShown flag.
\* (SpecPair)
C29_EncodingIsInjective ==
    ret.op = "Fluid" =>
        ( Find(out, <<1>>, out[2].data) # Undefined
          <=> /\ out[1].name = out[2].name
              /\ out[1].color = out[2].color
              /\ out[1].hydration = out[2].hydration
              /\ out[1].alwaysShown = out[2].alwaysShown )

C29_Witness ==
    /\ ret.op = "Fluid"
    /\ inp[1] # inp[2]
    /\ inp[1][2] = <<"#", "6", "C", "F">>
    /\ inp[2][2] = <<"#", "6", "c", "f">>
    /\ inp[1][3] = 150
    /\ out[1].data = out[2].data
    /\ out[1].name = <<65, 66>>

\* s is a prefix of t
IsPrefix(s, t) == Len(s) <= Len(t) /\ SubSeq(t, 1, Len(s)) = s

\* C26: the value stored under "moist:fluids" is the concatenation of the
\* data of Fluid.saved in order, and the value stored before a step is a
\* prefix of the value stored after it.  (SpecTwins)
C26_BufferIsAppendOnly ==
    /\ [](localStorage[FluidsKey] = ConcatData(heap, saved))
    /\ [][IsPrefix(localStorage[FluidsKey], localStorage'[FluidsKey])]_vars

C26_Witness ==
    /\ Len(saved) = 3
    /\ heap[saved[1]].name = WaterName
    /\ ~heap[saved[2]].alwaysShown
    /\ heap[saved[3]].alwaysShown
    /\ localStorage[FluidsKey] = ConcatData(heap, saved)
    /\ Len(localStorage[FluidsKey]) > Len(heap[saved[1]].data)

\* C27: running startup again over the stored buffer leaves the buffer as
\* it is and Fluid.saved with fluids of the same data in the same order,
\* after any number of reloads.  (SpecTwins)
C27_ReloadIsNoOp ==
    \E s \in {Startup(localStorage)} :
        /\ s.localStorage = localStorage
        /\ Len(s.saved) = Len(saved)
        /\ \A i \in 1..Len(saved) :
               s.heap[s.saved[i]].data = heap[saved[i]].data

C27_Witness ==
    /\ Len(saved) = 2
    /\ Len(heap) = 2
    /\ heap[saved[1]].index = 0
    /\ heap[saved[2]].index = 1
    /\ heap[saved[2]].color = <<"#", "0", "a", "0">>
    /\ Startup(localStorage).localStorage = localStorage

\* C28: Fluid.decodeCollection comes to an end on every buffer: each fluid
\* it produces takes at least 2 words of the read position, so it produces
\* at most ceil(length / 2) fluids.  (SpecAnyCollection)
C28_DecodeAdvances ==
    ret.op = "Fluid.decodeCollection" =>
        /\ \A i \in 1..Len(out) : Len(out[i].data) >= 2
        /\ 2 * Len(out) <= Len(inp) + 1
        /\ \A i \in 1..Len(out) : out[i].index = i - 1

C28_Witness ==
    /\ ret.op = "Fluid.decodeCollection"
    /\ Len(inp) = MaxWords
    /\ inp[1] = 31
    /\ Len(out) = 1
    /\ Len(out[1].name) = MaxWords - 2

=============================================================================
